---- MODULE Spec2Model ----
(***************************************************************************)
(* Model of src/emprestimo.py: the loan calculator's amortization engine   *)
(* (calcular_parcela, gerar_tabela_amortizacao), its maturity classifier   *)
(* (analisar_prazo_contabil) and the totals the page derives from them.    *)
(*                                                                         *)
(* The program computes with Python floats (IEEE 754 binary64, round to    *)
(* nearest, ties to even).  TLC's integers are 32 bits wide, so a float is *)
(* modelled bit for bit on top of an arbitrary-precision natural number    *)
(* (a sequence of 15-bit limbs, least significant first).                  *)
(***************************************************************************)
EXTENDS Integers, Sequences, FiniteSets, TLC

(***************************************************************************)
(* Arbitrary-precision naturals: <<l1, ..., lk>> is the sum of             *)
(* l_i * Base^(i-1); no leading (last) zero limb, zero is <<>>.            *)
(***************************************************************************)
Base == 2^15

Max(a, b) == IF a >= b THEN a ELSE b

Min(a, b) == IF a <= b THEN a ELSE b

RECURSIVE NTop(_, _)
NTop(a, i) == IF i = 0 THEN 0 ELSE IF a[i] # 0 THEN i ELSE NTop(a, i - 1)

NNorm(a) == SubSeq(a, 1, NTop(a, Len(a)))

NFromInt(n) ==
    IF n = 0 THEN <<>>
    ELSE IF n < Base THEN <<n>>
    ELSE IF n < Base * Base THEN <<n % Base, n \div Base>>
    ELSE <<n % Base, (n \div Base) % Base, n \div (Base * Base)>>

NLimb(a, i) == IF i >= 1 /\ i <= Len(a) THEN a[i] ELSE 0

\* Carry propagation over the columns lo..hi of c, by halves (the recursion is
\* as deep as the logarithm of the length): <<limbs, carry out>>.
RECURSIVE NCarryR(_, _, _, _)
NCarryR(c, lo, hi, cin) ==
    IF lo > hi THEN <<<<>>, cin>>
    ELSE IF lo = hi
    THEN <<<<(c[lo] + cin) % Base>>, (c[lo] + cin) \div Base>>
    ELSE LET mid == (lo + hi) \div 2
             l == NCarryR(c, lo, mid, cin)
             r == NCarryR(c, mid + 1, hi, l[2])
         IN  <<l[1] \o r[1], r[2]>>

\* the limbs and the carry out r = <<limbs, carry>> as one number
NCarried(r) == NNorm(r[1] \o NFromInt(r[2]))

\* the number whose column i holds c[i] (a column may exceed a limb, or be negative)
NCarry(c) == NCarried(NCarryR(c, 1, Len(c), 0))

\* a + b, or a - b for a >= b
NAddSub(a, b, sub) ==
    NCarry([i \in 1..Max(Len(a), Len(b)) |->
              NLimb(a, i) + (IF sub THEN -NLimb(b, i) ELSE NLimb(b, i))])

NAdd(a, b) == NAddSub(a, b, FALSE)

\* a - b for a >= b
NSub(a, b) == NAddSub(a, b, TRUE)

\* -1, 0, 1 as a < b, a = b, a > b
NCmp(a, b) ==
    IF Len(a) < Len(b) THEN -1
    ELSE IF Len(a) > Len(b) THEN 1
    ELSE LET d == {i \in 1..Len(a) : a[i] # b[i]}
         IN  IF d = {} THEN 0
             ELSE LET t == CHOOSE i \in d : \A j \in d : j <= i
                  IN  IF a[t] < b[t] THEN -1 ELSE 1

\* a * d for a limb-sized d (0 <= d < Base)
NMulSmall(a, d) ==
    IF d = 0 \/ Len(a) = 0 THEN <<>>
    ELSE NCarry([i \in 1..Len(a) |-> a[i] * d])

RECURSIVE SeqSum(_, _, _)
SeqSum(s, lo, hi) ==
    IF lo > hi THEN 0
    ELSE IF lo = hi THEN s[lo]
    ELSE SeqSum(s, lo, (lo + hi) \div 2) + SeqSum(s, ((lo + hi) \div 2) + 1, hi)

\* column k of a * b: the low halves of the limb products a[i] * b[k + 1 - i]
\* and the high halves of the products of the column below
NMulColumn(a, b, k) ==
    LET lo == [i \in Max(1, k + 1 - Len(b))..Min(Len(a), k) |-> (a[i] * b[k + 1 - i]) % Base]
        hi == [i \in Max(1, k - Len(b))..Min(Len(a), k - 1) |-> (a[i] * b[k - i]) \div Base]
    IN  SeqSum(lo, Max(1, k + 1 - Len(b)), Min(Len(a), k))
        + SeqSum(hi, Max(1, k - Len(b)), Min(Len(a), k - 1))

NMul(a, b) ==
    IF Len(a) = 0 \/ Len(b) = 0 THEN <<>>
    ELSE NCarry([k \in 1..(Len(a) + Len(b)) |-> NMulColumn(a, b, k)])

NZeros(k) == [i \in 1..k |-> 0]

\* a * 2^k
NShl(a, k) ==
    IF Len(a) = 0 THEN <<>>
    ELSE NZeros(k \div 15) \o NMulSmall(a, 2^(k % 15))

\* floor(a / 2^k)
NShr(a, k) ==
    LET q == k \div 15
        r == k % 15
        n == Len(a) - q
    IN  IF n <= 0 THEN <<>>
        ELSE NNorm([i \in 1..n |->
                      (a[i + q] \div 2^r) + (NLimb(a, i + q + 1) % 2^r) * 2^(15 - r)])

RECURSIVE BitLenInt(_)
BitLenInt(n) == IF n = 0 THEN 0 ELSE 1 + BitLenInt(n \div 2)

\* number of bits of a (0 for zero)
NBitLen(a) == IF Len(a) = 0 THEN 0 ELSE (Len(a) - 1) * 15 + BitLenInt(a[Len(a)])

\* bit i of a, bit 0 the least significant
NBit(a, i) == (NLimb(a, (i \div 15) + 1) \div 2^(i % 15)) % 2

\* whether the k low bits of a are all zero
NLowZero(a, k) ==
    /\ \A i \in 1..Min(k \div 15, Len(a)) : a[i] = 0
    /\ NLimb(a, (k \div 15) + 1) % 2^(k % 15) = 0

NIsOdd(a) == Len(a) > 0 /\ a[1] % 2 = 1

\* the largest digit d in lo..hi with b * d <= r (b * lo <= r is given)
RECURSIVE NDigit(_, _, _, _)
NDigit(r, b, lo, hi) ==
    IF lo = hi THEN lo
    ELSE LET mid == (lo + hi + 1) \div 2
         IN  IF NCmp(NMulSmall(b, mid), r) <= 0
             THEN NDigit(r, b, mid, hi)
             ELSE NDigit(r, b, lo, mid - 1)

\* long division, one limb of the quotient at a time, over the limbs lo..hi of a
\* from the top down, r the remainder so far:
\* <<quotient limbs (most significant first), remainder>>
\* one step of it: the digit d of the quotient for the remainder r (r < b * Base)
NDivStep(r, b, d) == <<<<d>>, NSub(r, NMulSmall(b, d))>>

RECURSIVE NDivModR(_, _, _, _, _)
NDivModR(a, b, lo, hi, r) ==
    IF lo = hi
    THEN NDivStep(NNorm(<<a[lo]>> \o r), b, NDigit(NNorm(<<a[lo]>> \o r), b, 0, Base - 1))
    ELSE LET mid == (lo + hi) \div 2
             t == NDivModR(a, b, mid + 1, hi, r)
             l == NDivModR(a, b, lo, mid, t[2])
         IN  <<t[1] \o l[1], l[2]>>

\* the quotient of t = <<quotient limbs (most significant first), remainder>>
\* turned least significant first
NQuotRem(t) == <<NNorm([i \in 1..Len(t[1]) |-> t[1][Len(t[1]) + 1 - i]]), t[2]>>

\* <<floor(a / b), a mod b>> for b > 0
NDivMod(a, b) ==
    IF Len(a) = 0 THEN <<<<>>, <<>>>>
    ELSE NQuotRem(NDivModR(a, b, 1, Len(a), <<>>))

\* a^n by squaring (n >= 0)
RECURSIVE NPow(_, _)
NPow(a, n) ==
    IF n = 0 THEN <<1>>
    ELSE LET h == NPow(a, n \div 2)
         IN  NMul(NMul(h, h), IF n % 2 = 0 THEN <<1>> ELSE a)

(***************************************************************************)
(* Python floats.  A finite float is [k |-> "fin", s, m, e] with value     *)
(* (-1)^s * m * 2^e, where m is a natural below 2^53 and either            *)
(* m >= 2^52 (normal, -1074 <= e <= 971) or e = -1074 (subnormal); zero    *)
(* has m = <<>> and e = 0 and keeps its sign.  k is "inf" or "nan" for the *)
(* other values.  An exception raised by an operation is the record        *)
(* [exc |-> name]; it propagates through every later operation.            *)
(***************************************************************************)
Raise(name) == [exc |-> name]

Raised(v) == "exc" \in DOMAIN v

FZero(s) == [k |-> "fin", s |-> s, m |-> <<>>, e |-> 0]

FInf(s) == [k |-> "inf", s |-> s, m |-> <<>>, e |-> 0]

FNaN == [k |-> "nan", s |-> 0, m |-> <<>>, e |-> 0]

FIsZero(x) == x.k = "fin" /\ Len(x.m) = 0

\* the float (-1)^s * m * 2^e of a significand that fits: zero for m = 0,
\* infinite above the largest exponent
FPack(s, m, e) ==
    IF Len(m) = 0 THEN FZero(s)
    ELSE IF e > 971 THEN FInf(s)
    ELSE [k |-> "fin", s |-> s, m |-> m, e |-> e]

\* q, or q + 1 when the part cut off is above one half (half and rest), or is
\* one half and q is odd
FNearest(q, half, rest) == IF half /\ (rest \/ NIsOdd(q)) THEN NAdd(q, <<1>>) ELSE q

\* a significand that rounding up took to 2^53 goes back to 53 bits
FCarry(s, q, e) ==
    FPack(s, IF NBitLen(q) = 54 THEN NShr(q, 1) ELSE q, IF NBitLen(q) = 54 THEN e + 1 ELSE e)

\* m * 2^e with the exponent brought to te: exact when te <= e, and the nearest
\* multiple of 2^te otherwise
FRoundAt(s, m, e, sticky, te) ==
    IF te <= e THEN FPack(s, NShl(m, e - te), te)
    ELSE FCarry(s, FNearest(NShr(m, te - e), NBit(m, te - e - 1) = 1,
                            sticky \/ ~NLowZero(m, te - e - 1)), te)

\* (-1)^s * m * 2^e, plus a little more in magnitude when sticky, rounded to the
\* nearest float, ties to even; a sticky m has at least 55 bits
FRound(s, m, e, sticky) ==
    IF Len(m) = 0 THEN FZero(s)
    ELSE FRoundAt(s, m, e, sticky, Max(e + NBitLen(m) - 53, -1074))

\* the float of a quotient and remainder qr with the exponent e
FRoundQR(s, qr, e) == FRound(s, qr[1], e, Len(qr[2]) # 0)

\* the numerator shifted by sh bits, so that the quotient has at least 55
FRoundShifted(s, num, den, e, sh) == FRoundQR(s, NDivMod(NShl(num, sh), den), e - sh)

\* (-1)^s * (num / den) * 2^e correctly rounded, for naturals num > 0 and den > 0
FRoundRatio(s, num, den, e) ==
    FRoundShifted(s, num, den, e, Max(0, 55 + NBitLen(den) - NBitLen(num)))

\* float(n) for an integer n of at most 31 bits: exact, the bits moved to the top
\* of the significand
FromInt(n) ==
    LET a == IF n >= 0 THEN n ELSE -n
    IN  IF n = 0 THEN FZero(0)
        ELSE FPack(IF n >= 0 THEN 0 ELSE 1, NShl(NFromInt(a), 53 - BitLenInt(a)),
                   BitLenInt(a) - 53)

\* the float a decimal literal denotes: n * 10^(-d) for an integer n and d >= 0
FDec(n, d) ==
    IF n = 0 THEN FZero(0)
    ELSE FRoundRatio(IF n < 0 THEN 1 ELSE 0, NFromInt(IF n < 0 THEN -n ELSE n),
                     NPow(<<10>>, d), 0)

FNeg(x) == IF Raised(x) \/ x.k = "nan" THEN x ELSE [x EXCEPT !.s = 1 - x.s]

\* -1, 0, 1 as |x| < |y|, |x| = |y|, |x| > |y| for finite x and y
FCmpMag(x, y) ==
    IF Len(x.m) = 0 \/ Len(y.m) = 0
    THEN (IF Len(x.m) = 0 THEN 0 ELSE 1) - (IF Len(y.m) = 0 THEN 0 ELSE 1)
    ELSE IF x.e # y.e THEN (IF x.e < y.e THEN -1 ELSE 1)
    ELSE NCmp(x.m, y.m)

\* -1, 0, 1 as x < y, x == y, x > y for x and y that are not nan
FCmp(x, y) ==
    IF x.k = "inf" \/ y.k = "inf"
    THEN (IF x.k = "inf" THEN 1 - 2 * x.s ELSE 0) - (IF y.k = "inf" THEN 1 - 2 * y.s ELSE 0)
    ELSE IF FIsZero(x) /\ FIsZero(y) THEN 0
    ELSE IF x.s # y.s THEN (IF x.s = 1 THEN -1 ELSE 1)
    ELSE IF x.s = 0 THEN FCmpMag(x, y) ELSE FCmpMag(y, x)

\* x == y (false when either is nan)
FEq(x, y) == x.k # "nan" /\ y.k # "nan" /\ FCmp(x, y) = 0

\* Exact values: a dyadic number [s, m, e] is (-1)^s * m * 2^e with m any natural
\* (zero has s = 0, m = <<>> and e = 0).
Dy(x) == [s |-> IF Len(x.m) = 0 THEN 0 ELSE x.s, m |-> x.m, e |-> IF Len(x.m) = 0 THEN 0 ELSE x.e]

DyZero == [s |-> 0, m |-> <<>>, e |-> 0]

\* (-1)^sx * mx * 2^e + (-1)^sy * my * 2^e for mx, my > 0, c comparing mx and my
DyAddSigned(sx, mx, sy, my, e, c) ==
    IF sx # sy /\ c = 0 THEN DyZero
    ELSE [s |-> IF c >= 0 THEN sx ELSE sy,
          m |-> NAddSub(IF c >= 0 THEN mx ELSE my, IF c >= 0 THEN my ELSE mx, sx # sy),
          e |-> e]

DyAddAligned(sx, mx, sy, my, e) == DyAddSigned(sx, mx, sy, my, e, NCmp(mx, my))

\* x + y, exactly
DyAdd(x, y) ==
    IF Len(x.m) = 0 THEN y
    ELSE IF Len(y.m) = 0 THEN x
    ELSE DyAddAligned(x.s, NShl(x.m, x.e - Min(x.e, y.e)),
                      y.s, NShl(y.m, y.e - Min(x.e, y.e)), Min(x.e, y.e))

\* the float nearest to a dyadic number
FromDy(d) == FRound(d.s, d.m, d.e, FALSE)

\* x + y
FAdd(x, y) ==
    IF Raised(x) THEN x
    ELSE IF Raised(y) THEN y
    ELSE IF x.k = "nan" \/ y.k = "nan" THEN FNaN
    ELSE IF x.k = "inf" THEN (IF y.k = "inf" /\ y.s # x.s THEN FNaN ELSE x)
    ELSE IF y.k = "inf" THEN y
    ELSE IF FIsZero(x) THEN (IF FIsZero(y) THEN FZero(IF x.s = 1 /\ y.s = 1 THEN 1 ELSE 0) ELSE y)
    ELSE IF FIsZero(y) THEN x
    ELSE FromDy(DyAdd(Dy(x), Dy(y)))

\* x - y
FSub(x, y) == FAdd(x, FNeg(y))

\* x * y
FMul(x, y) ==
    IF Raised(x) THEN x
    ELSE IF Raised(y) THEN y
    ELSE IF x.k = "nan" \/ y.k = "nan" THEN FNaN
    ELSE IF x.k = "inf" \/ y.k = "inf"
    THEN (IF FIsZero(x) \/ FIsZero(y) THEN FNaN ELSE FInf((x.s + y.s) % 2))
    ELSE FRound((x.s + y.s) % 2, NMul(x.m, y.m), x.e + y.e, FALSE)

\* x / y; Python raises ZeroDivisionError for a zero divisor
FDiv(x, y) ==
    IF Raised(x) THEN x
    ELSE IF Raised(y) THEN y
    ELSE IF FIsZero(y) THEN Raise("ZeroDivisionError")
    ELSE IF x.k = "nan" \/ y.k = "nan" THEN FNaN
    ELSE IF x.k = "inf" THEN (IF y.k = "inf" THEN FNaN ELSE FInf((x.s + y.s) % 2))
    ELSE IF y.k = "inf" \/ FIsZero(x) THEN FZero((x.s + y.s) % 2)
    ELSE FRoundRatio((x.s + y.s) % 2, x.m, y.m, x.e - y.e)

\* q, or q + 1 when acima and a part of the value is cut off
FVizinho(q, cortado, acima) == IF acima /\ cortado THEN NAdd(q, <<1>>) ELSE q

\* m * 2^e with the exponent brought to te: exact when te <= e, and otherwise the
\* multiple of 2^te just below it in magnitude, or just above it when acima
FVizinhoAt(s, m, e, sticky, te, acima) ==
    IF te <= e THEN FPack(s, NShl(m, e - te), te)
    ELSE FCarry(s, FVizinho(NShr(m, te - e), sticky \/ ~NLowZero(m, te - e), acima), te)

\* (-1)^s * m * 2^e, plus a little more in magnitude when sticky: the value itself
\* when it is a float, and otherwise one of the two floats around it, the one
\* nearer to zero or, when acima, the one farther from zero
FVizinhoDe(s, m, e, sticky, acima) ==
    IF Len(m) = 0 THEN FZero(s)
    ELSE FVizinhoAt(s, m, e, sticky, Max(e + NBitLen(m) - 53, -1074), acima)

\* the same of a quotient and remainder qr with the exponent e
FVizinhoQR(s, qr, e, acima) == FVizinhoDe(s, qr[1], e, Len(qr[2]) # 0, acima)

\* (-1)^s * p * 2^e, or (-1)^s * (1 / p) * 2^e for a negative exponent, as the C
\* library's pow() returns it: the power itself when it is a float, and otherwise
\* one of the two floats around it
FPowMag(s, p, e, pos, acima) ==
    IF pos THEN FVizinhoDe(s, p, e, FALSE, acima)
    ELSE FVizinhoQR(s, NDivMod(NShl(<<1>>, 54 + NBitLen(p)), p), e - (54 + NBitLen(p)), acima)

\* the result r of finite operands: OverflowError when it is infinite
FFinite(r) == IF r.k = "inf" THEN Raise("OverflowError") ELSE r

\* x ** n for an integer n (float.__pow__ with the exponent converted to float):
\* ZeroDivisionError for zero to a negative power, OverflowError when the
\* result of finite operands is infinite.  Python leaves the power to the C
\* library's pow(), which is not correctly rounded: its error is below one unit
\* in the last place, so it returns the power itself when that is a float and
\* otherwise either of the two floats around it.  libm_pow tells which one the
\* library of the build returns for these operands: "abaixo", the one nearer to
\* zero, or "acima", the one farther from zero.
FPow(x, n, libm_pow) ==
    IF Raised(x) THEN x
    ELSE IF n = 0 THEN FromInt(1)
    ELSE IF x.k = "nan" THEN FNaN
    ELSE LET sg == IF n % 2 = 1 THEN x.s ELSE 0
         IN  IF x.k = "inf" THEN (IF n > 0 THEN FInf(sg) ELSE FZero(sg))
             ELSE IF FIsZero(x)
             THEN (IF n < 0 THEN Raise("ZeroDivisionError") ELSE FZero(sg))
             ELSE FFinite(FPowMag(sg, NPow(x.m, IF n > 0 THEN n ELSE -n), x.e * n, n > 0,
                                     libm_pow = "acima"))

(***************************************************************************)
(* Dates.  The page passes pd.to_datetime(<a date>) (midnight), so a       *)
(* Timestamp is a calendar date [y, m, d].                                 *)
(***************************************************************************)
Date(y, m, d) == [y |-> y, m |-> m, d |-> d]

IsLeap(y) == (y % 4 = 0 /\ y % 100 # 0) \/ y % 400 = 0

DaysInMonth(y, m) ==
    IF m = 2 THEN (IF IsLeap(y) THEN 29 ELSE 28)
    ELSE IF m \in {4, 6, 9, 11} THEN 30 ELSE 31

\* t + pd.DateOffset(months=k): the month moves, the day is kept unless the
\* target month is shorter, and then it is that month's last day
DateOffsetMonths(t, k) ==
    LET y == t.y + ((t.m - 1 + k) \div 12)
        m == ((t.m - 1 + k) % 12) + 1
    IN  Date(y, m, Min(t.d, DaysInMonth(y, m)))

\* t.strftime('%d/%m/%Y'): the digits of "dd/mm/YYYY", the slashes left out
Strftime(t) ==
    <<t.d \div 10, t.d % 10, t.m \div 10, t.m % 10,
      t.y \div 1000, (t.y \div 100) % 10, (t.y \div 10) % 10, t.y % 10>>

\* pd.to_datetime(s, format='%d/%m/%Y')
ToDatetime(s) ==
    Date(s[5] * 1000 + s[6] * 100 + s[7] * 10 + s[8], s[3] * 10 + s[4], s[1] * 10 + s[2])

\* a < b on Timestamps
DateLt(a, b) ==
    \/ a.y < b.y
    \/ a.y = b.y /\ a.m < b.m
    \/ a.y = b.y /\ a.m = b.m /\ a.d < b.d

\* a <= b
DateLe(a, b) == DateLt(a, b) \/ a = b

\* a > b
DateGt(a, b) == DateLt(b, a)

(***************************************************************************)
(* The amortization engine.                                                *)
(***************************************************************************)
\* taxa_juros_anual / 12 / 100
TaxaMensal(taxa_juros_anual) == FDiv(FDiv(taxa_juros_anual, FromInt(12)), FromInt(100))

\* line 23, potencia being (1 + taxa_mensal) ** prazo_meses
Price(principal, taxa_mensal, potencia) ==
    FDiv(FMul(principal, FMul(taxa_mensal, potencia)), FSub(potencia, FromInt(1)))

\* a faulty variant: the zero rate is not told apart (lines 21-22 left out)
calcular_parcela_sem_taxa_zero(principal, taxa_juros_anual, prazo_meses, libm_pow) ==
    Price(principal, TaxaMensal(taxa_juros_anual),
          FPow(FAdd(FromInt(1), TaxaMensal(taxa_juros_anual)), prazo_meses, libm_pow))

\* lines 19-24; libm_pow is the C library's rounding of the power of line 23
calcular_parcela(principal, taxa_juros_anual, prazo_meses, libm_pow) ==
    LET taxa_mensal == TaxaMensal(taxa_juros_anual)
    IN  IF FEq(taxa_mensal, FromInt(0))
        THEN FDiv(principal, FromInt(prazo_meses))
        ELSE Price(principal, taxa_mensal,
                   FPow(FAdd(FromInt(1), taxa_mensal), prazo_meses, libm_pow))

\* the names of the schedule's columns (the keys of a row, in order)
Colunas == <<"Parcela", "Data", "Prestacao", "Juros", "Amortizacao", "SaldoDevedor">>

\* a faulty variant: the last row is not corrected (lines 41-43 left out)
LinhaSemCorrecao(i, data_parcela, parcela, juros, amortizacao, saldo_devedor, prazo_meses) ==
    [Parcela      |-> i,
     Data         |-> Strftime(data_parcela),
     Prestacao    |-> parcela,
     Juros        |-> juros,
     Amortizacao  |-> amortizacao,
     SaldoDevedor |-> saldo_devedor]

\* lines 40-52: the correction of the last row, and the row appended
Linha(i, data_parcela, parcela, juros, amortizacao, saldo_devedor, prazo_meses) ==
    [Parcela      |-> i,
     Data         |-> Strftime(data_parcela),
     Prestacao    |-> parcela,
     Juros        |-> juros,
     Amortizacao  |-> IF i = prazo_meses THEN FAdd(amortizacao, saldo_devedor)
                                         ELSE amortizacao,
     SaldoDevedor |-> IF i = prazo_meses THEN FromInt(0) ELSE saldo_devedor]

\* t advanced k times by one month, each time from the date before
RECURSIVE DataEncadeada(_, _)
DataEncadeada(t, k) == IF k <= 0 THEN t ELSE DateOffsetMonths(DataEncadeada(t, k - 1), 1)

\* a faulty variant: each due date is the previous due date plus one month
LinhaTabelaEncadeada(i, saldo_devedor, parcela, taxa_mensal, prazo_meses, data_inicio) ==
    LET juros       == FMul(saldo_devedor, taxa_mensal)
        amortizacao == FSub(parcela, juros)
    IN  Linha(i, DataEncadeada(data_inicio, i), parcela, juros, amortizacao,
              FSub(saldo_devedor, amortizacao), prazo_meses)

\* one pass of the loop (lines 35-52): row i, from the balance before it
LinhaTabela(i, saldo_devedor, parcela, taxa_mensal, prazo_meses, data_inicio) ==
    LET juros       == FMul(saldo_devedor, taxa_mensal)
        amortizacao == FSub(parcela, juros)
    IN  Linha(i, DateOffsetMonths(data_inicio, i), parcela, juros, amortizacao,
              FSub(saldo_devedor, amortizacao), prazo_meses)

\* for i in range(1, prazo_meses + 1), tabela holding the rows appended so far
RECURSIVE LoopTabela(_, _, _, _, _, _)
LoopTabela(tabela, principal, parcela, taxa_mensal, prazo_meses, data_inicio) ==
    IF Len(tabela) >= prazo_meses THEN tabela
    ELSE LET i == Len(tabela) + 1
             saldo_devedor == IF i = 1 THEN principal ELSE tabela[i - 1].SaldoDevedor
         IN  LoopTabela(Append(tabela, LinhaTabela(i, saldo_devedor, parcela, taxa_mensal,
                                                   prazo_meses, data_inicio)),
                        principal, parcela, taxa_mensal, prazo_meses, data_inicio)

\* pd.DataFrame(<list of dicts>): the columns are the keys of the rows, so a
\* frame made from the empty list has no column at all
DataFrame(linhas) ==
    [columns |-> IF Len(linhas) = 0 THEN <<>> ELSE Colunas, rows |-> linhas]

\* lines 31-54, parcela being what calcular_parcela returned or raised
TabelaDaParcela(principal, parcela, taxa_mensal, prazo_meses, data_inicio) ==
    IF Raised(parcela) THEN parcela
    ELSE DataFrame(LoopTabela(<<>>, principal, parcela, taxa_mensal, prazo_meses, data_inicio))

\* lines 27-54; libm_pow goes to calcular_parcela (line 29)
gerar_tabela_amortizacao(principal, taxa_juros_anual, prazo_meses, data_inicio, libm_pow) ==
    TabelaDaParcela(principal,
                    calcular_parcela(principal, taxa_juros_anual, prazo_meses, libm_pow),
                    TaxaMensal(taxa_juros_anual), prazo_meses, data_inicio)

(***************************************************************************)
(* The maturity classifier and the totals of its two buckets.              *)
(***************************************************************************)
HasColumn(df, c) == \E j \in 1..Len(df.columns) : df.columns[j] = c

\* faulty variants: the row due on data_limite is in neither bucket, or in both
CurtoEstrito(r, data_limite) == DateLt(r.Data_dt, data_limite)

LongoInclusivo(r, data_limite) == ~DateLt(r.Data_dt, data_limite)

\* line 64: df_com_data['Data_dt'] <= data_limite, for one row
Curto(r, data_limite) == DateLe(r.Data_dt, data_limite)

\* line 65: df_com_data['Data_dt'] > data_limite, for one row
Longo(r, data_limite) == DateGt(r.Data_dt, data_limite)

\* df['Data'] raises KeyError when the frame has no such column
analisar_prazo_contabil(df, data_base) ==
    LET data_limite == DateOffsetMonths(data_base, 12)
        com_data    == [i \in 1..Len(df.rows) |->
                          [Data_dt |-> ToDatetime(df.rows[i].Data)] @@ df.rows[i]]
        EhCurto(r)  == Curto(r, data_limite)
        EhLongo(r)  == Longo(r, data_limite)
        cols        == Append(df.columns, "Data_dt")
    IN  IF ~HasColumn(df, "Data") THEN Raise("KeyError")
        ELSE [curto_prazo |-> [columns |-> cols, rows |-> SelectSeq(com_data, EhCurto)],
              longo_prazo |-> [columns |-> cols, rows |-> SelectSeq(com_data, EhLongo)]]

\* res += a[i] for i = lo..hi, res holding the sum so far
RECURSIVE SomaSequencial(_, _, _, _)
SomaSequencial(a, lo, hi, res) ==
    IF lo > hi THEN res ELSE SomaSequencial(a, lo + 1, hi, FAdd(res, a[lo]))

\* the running sums r[lo..hi] added two by two:
\* ((r1 + r2) + (r3 + r4)) + ((r5 + r6) + (r7 + r8))
RECURSIVE SomaArvore(_, _, _)
SomaArvore(r, lo, hi) ==
    IF lo = hi THEN r[lo]
    ELSE FAdd(SomaArvore(r, lo, (lo + hi) \div 2), SomaArvore(r, ((lo + hi) \div 2) + 1, hi))

\* numpy's pairwise sum of a[lo..hi], which Series.sum() comes down to: one
\* running sum under 8 values, 8 interleaved running sums up to 128 values,
\* two halves above
RECURSIVE SomaPares(_, _, _)
SomaPares(a, lo, hi) ==
    LET n  == hi - lo + 1
        n8 == n - (n % 8)
        r  == [j \in 1..8 |->
                 SomaSequencial([t \in 1..((n8 \div 8) - 1) |-> a[lo + 8 * t + j - 1]],
                                1, (n8 \div 8) - 1, a[lo + j - 1])]
        n2 == (n \div 2) - ((n \div 2) % 8)
    IN  IF n < 8 THEN SomaSequencial(a, lo, hi, FZero(0))
        ELSE IF n <= 128 THEN SomaSequencial(a, lo + n8, hi, SomaArvore(r, 1, 8))
        ELSE FAdd(SomaPares(a, lo, lo + n2 - 1), SomaPares(a, lo + n2, hi))

\* a faulty variant: the sum of no value is NaN (as with min_count=1)
SomaColunaMinCount(df, coluna) ==
    LET v == [i \in 1..Len(df.rows) |-> df.rows[i][coluna]]
    IN  IF ~HasColumn(df, coluna) THEN Raise("KeyError")
        ELSE IF Len(v) = 0 THEN FNaN
        ELSE FAdd(FZero(0), SomaPares(v, 1, Len(v)))

\* a faulty variant: the first row is left out of the sum
SomaColunaSemPrimeira(df, coluna) ==
    LET v == [i \in 1..Len(df.rows) |-> df.rows[i][coluna]]
    IN  IF ~HasColumn(df, coluna) THEN Raise("KeyError")
        ELSE FAdd(FZero(0), SomaPares(v, 2, Len(v)))

\* df[coluna].sum(): NaN counts as zero (skipna), an empty column sums to zero
SomaColuna(df, coluna) ==
    LET v == [i \in 1..Len(df.rows) |->
                IF df.rows[i][coluna].k = "nan" THEN FZero(0) ELSE df.rows[i][coluna]]
    IN  IF ~HasColumn(df, coluna) THEN Raise("KeyError")
        ELSE FAdd(FZero(0), SomaPares(v, 1, Len(v)))

(***************************************************************************)
(* The calculation as a state machine.  In a run of the page (origem =      *)
(* "pagina") the inputs are what the widgets of lines 101-107 give, and the *)
(* steps of lines 110-151 run in order: the payment, the schedule, the      *)
(* classification at the base date and the totals of the two buckets.  The  *)
(* three functions also take the arguments a caller of its own gives them   *)
(* (they check none): origem then names the function called first, and the  *)
(* later steps run on what it returned.  The schedule is classified again   *)
(* when the base date moves later.  A step that raises ends the run in      *)
(* pc = "erro".                                                             *)
(***************************************************************************)
VARIABLES
    pc,                \* "inicio", "parcela", "tabela", "classificado", "fim", "erro"
    origem,            \* "pagina", or the function a caller calls first
    libm_pow,          \* the C library's rounding of the power of line 23, see FPow
    principal,         \* valor_principal
    taxa_juros_anual,
    prazo_meses,
    data_inicio,
    data_base,         \* data_base_contabil of the latest classification
    parcela_mensal,
    tabela,            \* tabela_amortizacao
    curto_prazo,
    longo_prazo,
    totais,            \* valor_curto_prazo, juros_curto_prazo, valor_longo_prazo, juros_longo_prazo
    anterior,          \* the classification before the latest: its base date and current rows
    erro               \* the exception raised and the step that raised it

vars == <<pc, origem, libm_pow, principal, taxa_juros_anual, prazo_meses, data_inicio,
          data_base, parcela_mensal, tabela, curto_prazo, longo_prazo, totais, anterior, erro>>

\* a variable not assigned yet
Nada == [nada |-> TRUE]

\* the longest term drawn (besides the 36 months the form starts with)
MaxPrazo == 4

\* the two floats pow() may return
LibmPow == {"abaixo", "acima"}

\* line 101, min_value=1000.0: 100000.0 (the form's value) and 1000.0
Principais == {FromInt(100000), FromInt(1000)}

\* line 102, min_value=0.0, max_value=100.0: 0.0, 12.0 (the form's value), 100.0
\* and 5.2
Taxas == {FromInt(0), FromInt(12), FromInt(100), FDec(52, 1)}

\* line 105, min_value=1, max_value=360
Prazos == 1..MaxPrazo

DatasInicio == {Date(2024, 1, 1), Date(2024, 1, 31)}

DatasBase == {Date(2022, 6, 15), Date(2023, 3, 1), Date(2023, 4, 30), Date(2024, 1, 1)}

\* 1.5 * 2^1023 (about 1.35e308): line 101 sets no max_value
PrincipalEnorme == FPack(0, NShl(NFromInt(3), 51), 971)

\* the variables no step has assigned yet
SemResultados ==
    /\ data_base = Nada
    /\ parcela_mensal = Nada
    /\ curto_prazo = Nada
    /\ longo_prazo = Nada
    /\ totais = Nada
    /\ anterior = Nada
    /\ erro = Nada

\* the page before the button is pressed: inputs within the widgets' bounds, or
\* the values the form starts with (100000.0, 12.0, 36 months), or 36 months at
\* the largest rate with a principal so large that the product of line 23 is
\* beyond the largest float
Init ==
    /\ SemResultados
    /\ pc = "inicio"
    /\ origem = "pagina"
    /\ tabela = Nada
    /\ libm_pow \in LibmPow
    /\ \/ /\ principal \in Principais
          /\ taxa_juros_anual \in Taxas
          /\ prazo_meses \in Prazos
          /\ data_inicio \in DatasInicio
       \/ /\ principal = FromInt(100000)
          /\ taxa_juros_anual = FromInt(12)
          /\ prazo_meses = 36
          /\ data_inicio = Date(2024, 1, 1)
       \/ /\ principal = PrincipalEnorme
          /\ taxa_juros_anual = FromInt(100)
          /\ prazo_meses = 36
          /\ data_inicio = Date(2024, 1, 1)

\* arguments of a call of calcular_parcela or gerar_tabela_amortizacao, which
\* take any number: 100000.0 and a principal that is not positive
PrincipaisChamada == {FromInt(100000), FromInt(-1000)}

\* 0.0, 12.0, 100.0, two positive rates below 1e-12 % a year (3.7e-13 and
\* 1e-15), and a negative rate
TaxasChamada == {FromInt(0), FromInt(12), FromInt(100), FDec(37, 14), FDec(1, 15), FromInt(-12)}

\* terms from 1 up, and the terms 0 and -1
PrazosChamada == -1..MaxPrazo

\* a schedule with the schedule's columns and no row, as a caller may pass one
\* to analisar_prazo_contabil
TabelaVazia == [columns |-> Colunas, rows |-> <<>>]

\* a caller about to call one of the functions with arguments of its own
InitChamada ==
    /\ SemResultados
    /\ data_inicio = Date(2024, 1, 31)
    /\ \/ /\ pc = "inicio"
          /\ origem \in {"calcular_parcela", "gerar_tabela_amortizacao"}
          /\ tabela = Nada
          /\ libm_pow \in LibmPow
          /\ principal \in PrincipaisChamada
          /\ taxa_juros_anual \in TaxasChamada
          /\ prazo_meses \in PrazosChamada
       \/ /\ pc = "tabela"
          /\ origem = "analisar_prazo_contabil"
          /\ tabela = TabelaVazia
          /\ libm_pow = "abaixo"
          /\ principal = FromInt(0)
          /\ taxa_juros_anual = FromInt(0)
          /\ prazo_meses = 0

\* line 111, or a call of calcular_parcela
CalcularParcela ==
    /\ pc = "inicio"
    /\ origem \in {"pagina", "calcular_parcela"}
    /\ \E p \in {calcular_parcela(principal, taxa_juros_anual, prazo_meses, libm_pow)} :
          IF Raised(p)
          THEN /\ pc' = "erro"
               /\ erro' = [etapa |-> "calcular_parcela", exc |-> p.exc]
               /\ UNCHANGED parcela_mensal
          ELSE /\ pc' = "parcela"
               /\ parcela_mensal' = p
               /\ UNCHANGED erro
    /\ UNCHANGED <<origem, libm_pow, principal, taxa_juros_anual, prazo_meses, data_inicio,
                   data_base, tabela, curto_prazo, longo_prazo, totais, anterior>>

\* line 132, or a call of gerar_tabela_amortizacao on its own
GerarTabela ==
    /\ \/ pc = "parcela"
       \/ pc = "inicio" /\ origem = "gerar_tabela_amortizacao"
    /\ \E t \in {gerar_tabela_amortizacao(principal, taxa_juros_anual, prazo_meses,
                                          data_inicio, libm_pow)} :
          IF Raised(t)
          THEN /\ pc' = "erro"
               /\ erro' = [etapa |-> "gerar_tabela_amortizacao", exc |-> t.exc]
               /\ UNCHANGED tabela
          ELSE /\ pc' = "tabela"
               /\ tabela' = t
               /\ UNCHANGED erro
    /\ UNCHANGED <<origem, libm_pow, principal, taxa_juros_anual, prazo_meses, data_inicio,
                   data_base, parcela_mensal, curto_prazo, longo_prazo, totais, anterior>>

\* line 135, and the classifier applied again at a later base date
AnalisarPrazo ==
    /\ pc \in {"tabela", "fim"}
    /\ \E db \in DatasBase :
          /\ pc = "fim" => DateLt(data_base, db)
          /\ \E r \in {analisar_prazo_contabil(tabela, db)} :
                 IF Raised(r)
                 THEN /\ pc' = "erro"
                      /\ erro' = [etapa |-> "analisar_prazo_contabil", exc |-> r.exc]
                      /\ UNCHANGED <<data_base, curto_prazo, longo_prazo, anterior>>
                 ELSE /\ pc' = "classificado"
                      /\ data_base' = db
                      /\ curto_prazo' = r.curto_prazo
                      /\ longo_prazo' = r.longo_prazo
                      /\ anterior' = IF pc = "fim"
                                     THEN [data_base |-> data_base,
                                           curto |-> Len(curto_prazo.rows)]
                                     ELSE Nada
                      /\ UNCHANGED erro
    /\ UNCHANGED <<origem, libm_pow, principal, taxa_juros_anual, prazo_meses, data_inicio,
                   parcela_mensal, tabela, totais>>

\* lines 142-151
Totais ==
    /\ pc = "classificado"
    /\ \E t \in {[valor_curto_prazo |-> SomaColuna(curto_prazo, "Amortizacao"),
                  juros_curto_prazo |-> SomaColuna(curto_prazo, "Juros"),
                  valor_longo_prazo |-> SomaColuna(longo_prazo, "Amortizacao"),
                  juros_longo_prazo |-> SomaColuna(longo_prazo, "Juros")]} :
          IF \E f \in DOMAIN t : Raised(t[f])
          THEN /\ pc' = "erro"
               /\ erro' = [etapa |-> "totais",
                           exc |-> t[CHOOSE f \in DOMAIN t : Raised(t[f])].exc]
               /\ UNCHANGED totais
          ELSE /\ pc' = "fim"
               /\ totais' = t
               /\ UNCHANGED erro
    /\ UNCHANGED <<origem, libm_pow, principal, taxa_juros_anual, prazo_meses, data_inicio,
                   data_base, parcela_mensal, tabela, curto_prazo, longo_prazo, anterior>>

Next == CalcularParcela \/ GerarTabela \/ AnalisarPrazo \/ Totais

\* the page
Spec == Init /\ [][Next]_vars

\* the functions called with arguments of the caller's own
SpecChamada == InitChamada /\ [][Next]_vars

(***************************************************************************)
(* Properties of the calculation.                                          *)
(***************************************************************************)
\* x <= y and x < y on floats (false when either is nan)
FLe(x, y) == x.k # "nan" /\ y.k # "nan" /\ FCmp(x, y) <= 0

FLt(x, y) == x.k # "nan" /\ y.k # "nan" /\ FCmp(x, y) < 0

\* exact values: -x, |x|, x * 2^k, x <= y, and the sum of the floats xs[lo..hi]
DyNeg(x) == [x EXCEPT !.s = IF Len(x.m) = 0 THEN 0 ELSE 1 - x.s]

DyAbs(x) == [x EXCEPT !.s = 0]

DyScale(x, k) == [x EXCEPT !.e = IF Len(x.m) = 0 THEN 0 ELSE x.e + k]

DyLe(x, y) == DyAdd(y, DyNeg(x)).s = 0

RECURSIVE DySum(_, _, _)
DySum(xs, lo, hi) ==
    IF lo > hi THEN DyZero
    ELSE IF lo = hi THEN Dy(xs[lo])
    ELSE DyAdd(DySum(xs, lo, (lo + hi) \div 2), DySum(xs, ((lo + hi) \div 2) + 1, hi))

\* valid loan terms: principal > 0, annual rate >= 0, term >= 1
Valido ==
    /\ FLt(FromInt(0), principal)
    /\ FLe(FromInt(0), taxa_juros_anual)
    /\ prazo_meses >= 1

\* the inputs went to calcular_parcela and gerar_tabela_amortizacao
DoMotor == origem # "analisar_prazo_contabil"

\* gerar_tabela_amortizacao has just returned tabela
Gerada == pc = "tabela" /\ DoMotor

Linhas == tabela.rows

\* the values of a column, and their magnitudes
Coluna(df, c) == [i \in 1..Len(df.rows) |-> df.rows[i][c]]

ColunaAbs(df, c) == [i \in 1..Len(df.rows) |-> [df.rows[i][c] EXCEPT !.s = 0]]

\* the sum of a column in exact arithmetic
SomaExata(df, c) == DySum(Coluna(df, c), 1, Len(df.rows))

SomaExataAbs(df, c) == DySum(ColunaAbs(df, c), 1, Len(df.rows))

\* x = y and |x - y| <= t on exact values
DyEq(x, y) == Len(DyAdd(x, DyNeg(y)).m) = 0

Perto(x, y, t) == DyLe(DyAbs(DyAdd(x, DyNeg(y))), t)

\* principal * 2^-40
Tolerancia == DyScale(Dy(principal), -40)

\* x is a finite float (neither inf nor nan)
Finito(x) == x.k = "fin"

\* every amount of the schedule is finite
TabelaFinita ==
    \A i \in 1..Len(Linhas) :
        /\ Finito(Linhas[i].Prestacao)
        /\ Finito(Linhas[i].Juros)
        /\ Finito(Linhas[i].Amortizacao)
        /\ Finito(Linhas[i].SaldoDevedor)

\* the four totals are finite
TotaisFinitos ==
    /\ Finito(totais.valor_curto_prazo)
    /\ Finito(totais.juros_curto_prazo)
    /\ Finito(totais.valor_longo_prazo)
    /\ Finito(totais.juros_longo_prazo)

\* x * n, exactly, for a natural n below 2^15
DyVezes(x, n) == IF n = 0 \/ Len(x.m) = 0 THEN DyZero ELSE [x EXCEPT !.m = NMulSmall(x.m, n)]

\* the balance before row i
SaldoAntes(i) == IF i = 1 THEN principal ELSE Linhas[i - 1].SaldoDevedor

\* parcela - juros of row i, as line 37 computes it
AmortizacaoBruta(i) == FSub(Linhas[i].Prestacao, Linhas[i].Juros)

\* the magnitudes the schedule adds and subtracts: the sum over its rows of
\* |Amortizacao| + |SaldoDevedor|, plus |parcela - juros| of the last row
Magnitudes ==
    DyAdd(DyAdd(SomaExataAbs(tabela, "Amortizacao"), SomaExataAbs(tabela, "SaldoDevedor")),
          DyAbs(Dy(AmortizacaoBruta(Len(Linhas)))))

\* the period indices of a bucket, in its order
ParcelasDe(df) == [j \in 1..Len(df.rows) |-> df.rows[j].Parcela]

\* a row of a bucket as it was in the schedule
SemDataDt(r) == [c \in DOMAIN r \ {"Data_dt"} |-> r[c]]

Ocorrencias(df, r) == Cardinality({j \in 1..Len(df.rows) : SemDataDt(df.rows[j]) = r})

Crescente(df) == \A j \in 1..(Len(df.rows) - 1) : df.rows[j].Parcela < df.rows[j + 1].Parcela

\* the due date of row i and the cutoff date of the latest classification
Vencimento(i) == ToDatetime(Linhas[i].Data)

DataLimite == DateOffsetMonths(data_base, 12)

\* C1, as stated: for valid loan terms the principal portions of the schedule
\* add up to the principal exactly.
C1_SomaExata ==
    (Gerada /\ Valido) => DyEq(SomaExata(tabela, "Amortizacao"), Dy(principal))

\* C1, amended: for valid loan terms the principal portions of a schedule whose
\* amounts are all finite add up to the principal up to the rounding of the
\* float operations, |sum - principal| <= 2^-52 * M, M being the sum over the
\* rows of |Amortizacao| + |SaldoDevedor| plus |parcela - juros| of the last
\* row; no row but the last is corrected (its portion is parcela - juros), and
\* the last row's portion is parcela - juros plus the balance left after it;
\* and when the payment is not finite (the product of line 23 is beyond the
\* largest float) a schedule is returned all the same and none of its
\* portions is finite.
C1_SomaComTolerancia ==
    (Gerada /\ Valido) =>
        /\ TabelaFinita =>
              Perto(SomaExata(tabela, "Amortizacao"), Dy(principal), DyScale(Magnitudes, -52))
        /\ \A i \in 1..Len(Linhas) :
              Linhas[i].Amortizacao =
                  IF i < prazo_meses THEN AmortizacaoBruta(i)
                  ELSE FAdd(AmortizacaoBruta(i), FSub(SaldoAntes(i), AmortizacaoBruta(i)))
        /\ ~Finito(Linhas[1].Prestacao) =>
              \A i \in 1..Len(Linhas) : ~Finito(Linhas[i].Amortizacao)

\* a valid schedule of several rows whose principal portions do not add up to
\* the principal exactly
C1_Witness ==
    /\ Gerada /\ Valido
    /\ prazo_meses >= 2
    /\ ~DyEq(SomaExata(tabela, "Amortizacao"), Dy(principal))

\* C2, as stated: for valid loan terms the balance of a row is never above the
\* balance of the row before it (the principal, for the first row), and the
\* balance of the last row is exactly 0.
C2_SaldoNaoCresce ==
    (Gerada /\ Valido) =>
        /\ \A i \in 1..Len(Linhas) : FLe(Linhas[i].SaldoDevedor, SaldoAntes(i))
        /\ Len(Linhas) = prazo_meses
        /\ FIsZero(Linhas[prazo_meses].SaldoDevedor)

\* C3, as stated: with a principal <= 0, a term <= 0 or a rate < 0, computing
\* the payment or building the schedule fails with InvalidInputError and
\* returns neither a payment nor a schedule.
C3_EntradaInvalida ==
    (DoMotor /\ ~Valido /\ pc # "inicio") =>
        (pc = "erro" /\ erro.exc = "InvalidInputError")

\* C4: the two buckets of a classification partition the schedule: every row
\* of the schedule is in exactly one bucket, once, the buckets hold no other
\* row, and each bucket is in ascending order of Parcela.
C4_Particao ==
    pc = "classificado" =>
        /\ \A i \in 1..Len(Linhas) :
              Ocorrencias(curto_prazo, Linhas[i]) + Ocorrencias(longo_prazo, Linhas[i]) = 1
        /\ Len(curto_prazo.rows) + Len(longo_prazo.rows) = Len(Linhas)
        /\ Crescente(curto_prazo)
        /\ Crescente(longo_prazo)

\* a classification with rows in both buckets
C4_Witness ==
    /\ pc = "classificado"
    /\ Len(curto_prazo.rows) > 0
    /\ Len(longo_prazo.rows) > 0

\* C5: a row is in the current bucket if and only if its due date is on or
\* before the base date plus 12 months, and in the non-current bucket
\* otherwise; of 36 periods from 2024-01-01 classified at 2024-01-01, periods
\* 1..12 are current and 13..36 non-current.
C5_CurtoAteDataLimite ==
    (pc = "classificado" /\ DoMotor) =>
        /\ \A i \in 1..Len(Linhas) :
              /\ (\E j \in 1..Len(curto_prazo.rows) : curto_prazo.rows[j].Parcela = i)
                     <=> DateLe(Vencimento(i), DataLimite)
              /\ (\E j \in 1..Len(longo_prazo.rows) : longo_prazo.rows[j].Parcela = i)
                     <=> ~DateLe(Vencimento(i), DataLimite)
        /\ (prazo_meses = 36 /\ data_inicio = Date(2024, 1, 1) /\ data_base = Date(2024, 1, 1)) =>
              /\ ParcelasDe(curto_prazo) = [j \in 1..12 |-> j]
              /\ ParcelasDe(longo_prazo) = [j \in 1..24 |-> j + 12]

\* the 36 periods from 2024-01-01 classified at 2024-01-01: period 12 falls due
\* on the cutoff date, 2025-01-01, and is current
C5_Witness ==
    /\ pc = "classificado" /\ DoMotor
    /\ prazo_meses = 36
    /\ data_base = Date(2024, 1, 1)
    /\ Vencimento(12) = DataLimite
    /\ DataLimite = Date(2025, 1, 1)
    /\ Len(curto_prazo.rows) = 12

\* C6: the classification of a schedule that has its columns never fails, nor
\* do the totals of its buckets; a schedule without rows gives two buckets
\* without rows, and a bucket without rows has the totals 0.0.
C6_NuncaFalha ==
    /\ (pc = "erro" /\ erro.etapa = "analisar_prazo_contabil") => ~HasColumn(tabela, "Data")
    /\ ~(pc = "erro" /\ erro.etapa = "totais")
    /\ (pc = "classificado" /\ Len(Linhas) = 0) =>
          (Len(curto_prazo.rows) = 0 /\ Len(longo_prazo.rows) = 0)
    /\ pc = "fim" =>
          /\ Len(curto_prazo.rows) = 0 =>
                (totais.valor_curto_prazo = FZero(0) /\ totais.juros_curto_prazo = FZero(0))
          /\ Len(longo_prazo.rows) = 0 =>
                (totais.valor_longo_prazo = FZero(0) /\ totais.juros_longo_prazo = FZero(0))

\* a schedule without rows, classified, and the totals of its two buckets
C6_Witness ==
    /\ pc = "fim"
    /\ Len(Linhas) = 0
    /\ Len(curto_prazo.rows) = 0
    /\ Len(longo_prazo.rows) = 0
    /\ totais.valor_curto_prazo = FZero(0)
    /\ totais.valor_longo_prazo = FZero(0)

\* C7, as stated: for valid loan terms gerar_tabela_amortizacao returns a
\* schedule (it does not raise) of exactly prazo_meses rows, whose Parcela are
\* 1, 2, ..., prazo_meses in that order.
C7_TabelaCompleta ==
    (DoMotor /\ Valido) =>
        /\ ~(pc = "erro" /\ erro.etapa = "gerar_tabela_amortizacao")
        /\ pc = "tabela" =>
              /\ Len(Linhas) = prazo_meses
              /\ \A i \in 1..Len(Linhas) : Linhas[i].Parcela = i

\* C8: for valid loan terms with the rate 0 nothing raises, the payment is
\* principal / prazo_meses, and the schedule has prazo_meses rows, each with
\* interest 0 and that payment; the principal portion is that payment in every
\* row but the last, and in the last it is that payment up to the final
\* correction (within principal * 2^-40 of it).
C8_TaxaZero ==
    (DoMotor /\ Valido /\ FIsZero(taxa_juros_anual)) =>
        /\ pc # "erro"
        /\ pc = "parcela" => parcela_mensal = FDiv(principal, FromInt(prazo_meses))
        /\ pc = "tabela" =>
              /\ Len(Linhas) = prazo_meses
              /\ \A i \in 1..Len(Linhas) :
                    /\ FIsZero(Linhas[i].Juros)
                    /\ Linhas[i].Prestacao = FDiv(principal, FromInt(prazo_meses))
                    /\ i < prazo_meses =>
                          Linhas[i].Amortizacao = FDiv(principal, FromInt(prazo_meses))
                    /\ Perto(Dy(Linhas[i].Amortizacao),
                             Dy(FDiv(principal, FromInt(prazo_meses))), Tolerancia)

\* a schedule of three rows or more at the rate 0
C8_Witness ==
    /\ Gerada /\ Valido
    /\ FIsZero(taxa_juros_anual)
    /\ prazo_meses >= 3
    /\ Len(Linhas) = prazo_meses

\* C9, as stated: for a valid loan the principal totals of the two buckets add
\* up to the principal, and their interest totals to the interest of the
\* whole schedule.
C9_TotaisExatos ==
    (pc = "fim" /\ DoMotor /\ Valido) =>
        /\ DyEq(DyAdd(Dy(totais.valor_curto_prazo), Dy(totais.valor_longo_prazo)),
                Dy(principal))
        /\ DyEq(DyAdd(Dy(totais.juros_curto_prazo), Dy(totais.juros_longo_prazo)),
                SomaExata(tabela, "Juros"))

\* C9, amended: for a valid loan of n rows whose amounts and totals are all
\* finite, the principal totals of the two buckets add up to the principal up
\* to the rounding of the float operations, |total - principal| <= n * 2^-52 * M
\* (M as in C1), and their interest totals to the interest of the whole
\* schedule within n * 2^-52 times the sum of the |Juros|; and when the payment
\* is not finite each principal total is inf or 0.0 (NaN is skipped), so they
\* do not add up to the principal.
C9_TotaisComTolerancia ==
    (pc = "fim" /\ DoMotor /\ Valido) =>
        /\ (TabelaFinita /\ TotaisFinitos) =>
              /\ Perto(DyAdd(Dy(totais.valor_curto_prazo), Dy(totais.valor_longo_prazo)),
                       Dy(principal), DyScale(DyVezes(Magnitudes, prazo_meses), -52))
              /\ Perto(DyAdd(Dy(totais.juros_curto_prazo), Dy(totais.juros_longo_prazo)),
                       SomaExata(tabela, "Juros"),
                       DyScale(DyVezes(SomaExataAbs(tabela, "Juros"), prazo_meses), -52))
        /\ ~Finito(Linhas[1].Prestacao) =>
              /\ totais.valor_curto_prazo.k = "inf" \/ FIsZero(totais.valor_curto_prazo)
              /\ totais.valor_longo_prazo.k = "inf" \/ FIsZero(totais.valor_longo_prazo)

\* the totals of a valid loan with rows in both buckets, which do not add up to
\* the principal exactly
C9_Witness ==
    /\ pc = "fim" /\ DoMotor /\ Valido
    /\ Len(curto_prazo.rows) > 0
    /\ Len(longo_prazo.rows) > 0
    /\ ~DyEq(DyAdd(Dy(totais.valor_curto_prazo), Dy(totais.valor_longo_prazo)),
             Dy(principal))

\* C10: the due date of row i is the start date advanced by i months, and the
\* due dates increase strictly; the current bucket holds the periods 1..k and
\* the non-current bucket the periods k+1..n, in that order; and a
\* classification at a later base date has no fewer current rows.
C10_Prefixo ==
    /\ Gerada =>
          \A i \in 1..Len(Linhas) :
              /\ Linhas[i].Data = Strftime(DateOffsetMonths(data_inicio, i))
              /\ i > 1 => DateLt(Vencimento(i - 1), Vencimento(i))
    /\ pc = "classificado" =>
          /\ ParcelasDe(curto_prazo) = [j \in 1..Len(curto_prazo.rows) |-> j]
          /\ ParcelasDe(longo_prazo) =
                 [j \in 1..Len(longo_prazo.rows) |-> j + Len(curto_prazo.rows)]
          /\ "curto" \in DOMAIN anterior =>
                 (DateLt(anterior.data_base, data_base)
                      /\ anterior.curto <= Len(curto_prazo.rows))

\* a schedule from the 31st of a month classified a second time, at a later
\* base date, with more current rows than before and some rows still non-current
C10_Witness ==
    /\ pc = "classificado"
    /\ data_inicio = Date(2024, 1, 31)
    /\ "curto" \in DOMAIN anterior
    /\ anterior.curto > 0
    /\ anterior.curto < Len(curto_prazo.rows)
    /\ Len(longo_prazo.rows) > 0


====
